---------------------------- MODULE Spec2Model ----------------------------
(***************************************************************************)
(* A model of the paint layer of pathfinder's renderer:                    *)
(*   renderer/src/sorted_vector.rs  SortedVector<T>                        *)
(*   renderer/src/paint.rs          Palette, LinearGradient, BuiltPalette  *)
(*                                                                         *)
(* Rust values are modelled as follows.                                    *)
(*   ColorU         [r, g, b, a], each a byte                              *)
(*   GradientStop   [distance, id, color]                                  *)
(*   Vec<T>         a sequence (Rust index i is TLA+ index i + 1)          *)
(*   Paint          [kind |-> "Color", color |-> c] or                     *)
(*                  [kind |-> "LinearGradient", stops |-> <<...>>]         *)
(*   Option<T>      <<>> for None, <<x>> for Some(x)                       *)
(*   Point2DI32     [x, y];  RectI32  [origin, size]                       *)
(*   a panic        the field fault = TRUE of the last call's record       *)
(***************************************************************************)
EXTENDS Integers, Sequences, FiniteSets, TLC

VARIABLES
    array,      \* SortedVector under test: its array field
    values,     \* test_sorted_vec: the values pushed so far, in push order
    results,    \* test_sorted_vec: the values popped so far, in pop order
    phase,      \* test_sorted_vec: "push" (the for loop) or "pop" (the while loop)
    numbered,   \* Palette.paints: how many numbered colors lead the IndexSet
    later,      \* Palette.paints: the entries of the IndexSet behind those
    log,        \* history: per entry of later, the paint and the PaintId its push returned
    tex_coords, \* BuiltPalette.tex_coords
    ret,        \* the last call on the palette / built palette and what it returned
    leading,    \* LinearGradient.stops.array of the gradient the scene is authoring:
                \* how many numbered stops lead the array
    trailing,   \* LinearGradient.stops.array: the entries behind those
    added       \* history: per add_color_stop call behind the numbered ones, in call
                \* order, the stop pushed and the number of stops before the call

vars ==
    <<array, values, results, phase, numbered, later, log, tex_coords, ret,
      leading, trailing, added>>

svVars == <<array, values, results, phase>>
palVars == <<numbered, later, log, tex_coords, ret>>
gradVars == <<leading, trailing, added>>

-----------------------------------------------------------------------------
(* Bounds of the model. *)

\* longest sequence of values the sorted-vector test pushes
MaxLen == 3
\* largest palette the small palette specification authors
MaxPaints == 3
\* most stops the scene adds to the gradient it authors
MaxStops == 3

-----------------------------------------------------------------------------
(* Program constants. *)

PAINT_TEXTURE_WIDTH == 256
PAINT_TEXTURE_HEIGHT == 256
\* number of values of a u16 (PaintId, GradientStop.distance, GradientStop.id)
U16Modulus == 65536
\* largest GradientStop.distance: the factor of add_color_stop
DistanceMax == 65535

AsU16(n) == n % U16Modulus

-----------------------------------------------------------------------------
(* Colors. *)

ColorU(r, g, b, a) == [r |-> r, g |-> g, b |-> b, a |-> a]

RED == ColorU(255, 0, 0, 255)
GREEN == ColorU(0, 255, 0, 255)
BLUE == ColorU(0, 0, 255, 255)

\* derived lexicographic order of ColorU, as GradientStop's derive(PartialOrd) uses it
ColorLt(c, d) ==
    \/ c.r < d.r
    \/ c.r = d.r /\ c.g < d.g
    \/ c.r = d.r /\ c.g = d.g /\ c.b < d.b
    \/ c.r = d.r /\ c.g = d.g /\ c.b = d.b /\ c.a < d.a

-----------------------------------------------------------------------------
(* GradientStop and its derived PartialOrd: lexicographic on                *)
(* (distance, id, color).                                                   *)

GradientStop(distance, id, color) ==
    [distance |-> distance, id |-> id, color |-> color]

StopLt(s, t) ==
    \/ s.distance < t.distance
    \/ s.distance = t.distance /\ s.id < t.id
    \/ s.distance = t.distance /\ s.id = t.id /\ ColorLt(s.color, t.color)

\* self.array[index] <= self.array[index + 1]
StopLe(s, t) == s = t \/ StopLt(s, t)

-----------------------------------------------------------------------------
(* SortedVector<T>, with T the element type the program uses it at.         *)

Swap(arr, i, j) == [arr EXCEPT ![i] = arr[j], ![j] = arr[i]]

\* The while loop of push.  index is the Rust index (0-based) at the loop
\* head; the element moving down sits at Rust index `index`.
RECURSIVE PushLoop(_, _)
PushLoopNoSwap(arr, index) == arr
PushLoop(arr, index) ==
    IF index > 0
    THEN LET i == index - 1 IN
         IF StopLe(arr[i + 1], arr[i + 2])
         THEN arr
         ELSE PushLoop(Swap(arr, i + 1, i + 2), i)
    ELSE arr

SvNew == <<>>

SvPush(arr, value) ==
    LET pushed == Append(arr, value)
    IN  PushLoop(pushed, Len(pushed) - 1)

SvPeek(arr) == IF arr = <<>> THEN <<>> ELSE <<arr[Len(arr)]>>

\* the array after pop, and the value pop returns
SvPopArray(arr) == IF arr = <<>> THEN arr ELSE SubSeq(arr, 1, Len(arr) - 1)
SvPopValue(arr) == SvPeek(arr)

SvIsEmpty(arr) == arr = <<>>
SvLen(arr) == Len(arr)


-----------------------------------------------------------------------------
(* test_sorted_vec: prop_sorted_vec pushes every value of its input, then   *)
(* pops until the vector is empty.  quickcheck draws the input; here each   *)
(* value is drawn as it is pushed.                                          *)

StopValues ==
    { GradientStop(d, i, c) : d \in {0, DistanceMax}, i \in {0, 1}, c \in {RED, GREEN} }

SvTestPush(value) ==
    /\ phase = "push"
    /\ Len(values) < MaxLen
    /\ array' = SvPush(array, value)
    /\ values' = Append(values, value)
    /\ UNCHANGED <<results, phase>>
    /\ UNCHANGED palVars
    /\ UNCHANGED gradVars

\* the end of the for loop: values.sort() and the start of the while loop
SvTestSort ==
    /\ phase = "push"
    /\ phase' = "pop"
    /\ UNCHANGED <<array, values, results>>
    /\ UNCHANGED palVars
    /\ UNCHANGED gradVars

\* one iteration of `while !sorted_vec.is_empty()`
SvTestPop ==
    /\ phase = "pop"
    /\ ~SvIsEmpty(array)
    /\ results' = results \o SvPopValue(array)
    /\ array' = SvPopArray(array)
    /\ UNCHANGED <<values, phase>>
    /\ UNCHANGED palVars
    /\ UNCHANGED gradVars

\* the property returned true: quickcheck starts the next case
SvTestNext ==
    /\ phase = "pop"
    /\ SvIsEmpty(array)
    /\ array' = SvNew
    /\ values' = <<>>
    /\ results' = <<>>
    /\ phase' = "push"
    /\ UNCHANGED palVars
    /\ UNCHANGED gradVars

-----------------------------------------------------------------------------
(* Paint, LinearGradient.                                                   *)

Color(c) == [kind |-> "Color", color |-> c]
LinearGradient(stops) == [kind |-> "LinearGradient", stops |-> stops]

IsColor(paint) == paint.kind = "Color"
IsLinearGradient(paint) == paint.kind = "LinearGradient"

-----------------------------------------------------------------------------
(* The state of Palette.paints.  An IndexSet is its entries in insertion    *)
(* order.  A scene with very many paints is one that pushed the numbered    *)
(* colors 0, 1, ..., numbered - 1 first: the state holds their count and    *)
(* the entries pushed after them.                                           *)

\* 2^24 distinct opaque colors, by number
NumberedColor(n) == ColorU(n % 256, (n \div 256) % 256, (n \div U16Modulus) % 256, 255)

\* the palette after push_paint of the first n numbered colors, and the ids
\* those calls returned
NumberedPalette(n) == [i \in 1..n |-> Color(NumberedColor(i - 1))]
NumberedIssued(n) ==
    [i \in 1..n |-> [paint |-> Color(NumberedColor(i - 1)), id |-> AsU16(i - 1)]]

\* one paint short of the 2^16 a PaintId can tell apart
WideStart == U16Modulus - 1

\* NumberedPalette(WideStart) and NumberedIssued(WideStart), evaluated once
WidePalette == NumberedPalette(WideStart) \o <<>>
WideIssued == NumberedIssued(WideStart) \o <<>>

\* Palette.paints
paints ==
    (IF numbered = WideStart THEN WidePalette ELSE NumberedPalette(numbered)) \o later

\* history: for each first insertion, in order, the paint and the PaintId
\* push_paint returned
issued ==
    (IF numbered = WideStart THEN WideIssued ELSE NumberedIssued(numbered)) \o log

\* the entries of set behind the first n
Behind(set, n) == SubSeq(set, n + 1, Len(set))

\* LinearGradient::new(): the stops of a new gradient
LinearGradientNew == SvNew

\* Offsets are the f32 values k / OffsetSteps, k in 0..OffsetSteps, given by
\* their numerator k.
OffsetSteps == 2

\* f32::round(offset * 65535.0): round to nearest, halves away from zero
RoundOffset(k) == (2 * k * DistanceMax + OffsetSteps) \div (2 * OffsetSteps)

\* `as u16` of an f32 saturates
F32AsU16(v) == IF v < 0 THEN 0 ELSE IF v > U16Modulus - 1 THEN U16Modulus - 1 ELSE v

\* add_color_stop: the stops after the call
AddColorStop(stops, k, color) ==
    LET distance == F32AsU16(RoundOffset(k))
        id == AsU16(SvLen(stops))
    IN  SvPush(stops, GradientStop(distance, id, color))

\* the stops after add_color_stop(k, color) for each <<k, color>> of calls, in order
RECURSIVE GradientOf(_)
GradientOf(calls) ==
    IF calls = <<>>
    THEN LinearGradientNew
    ELSE LET n == Len(calls) IN
         AddColorStop(GradientOf(SubSeq(calls, 1, n - 1)), calls[n][1], calls[n][2])

-----------------------------------------------------------------------------
(* Palette.                                                                 *)

PaletteNew == <<>>

\* IndexSet::get_full: the Rust index of paint, as Some(index) or None
GetFull(set, paint) ==
    IF \E i \in 1..Len(set) : set[i] = paint
    THEN <<(CHOOSE i \in 1..Len(set) : set[i] = paint) - 1>>
    ELSE <<>>

\* IndexSet::insert_full of a paint not in the set: the set after, and the index
InsertFullSet(set, paint) == Append(set, paint)
InsertFullIndex(set, paint) == Len(set)

\* push_paint, with full the result of self.paints.get_full(paint): the
\* registry after the call
PushPaintNoDedup(set, paint, full) == InsertFullSet(set, paint)
PushPaintFront(set, paint, full) == IF full # <<>> THEN set ELSE <<paint>> \o set
PushPaintSet(set, paint, full) ==
    IF full # <<>>
    THEN set
    ELSE InsertFullSet(set, paint)

\* push_paint: the PaintId returned
PushPaintIdAfter(set, paint, full) == AsU16(Len(PushPaintSet(set, paint, full)))
PushPaintId(set, paint, full) ==
    IF full # <<>>
    THEN AsU16(full[1])
    ELSE AsU16(InsertFullIndex(set, paint))

\* Palette::get: IndexSet::get_index(paint_id.0 as usize)
PaletteGet(set, paint_id) ==
    IF paint_id < Len(set) THEN <<set[paint_id + 1]>> ELSE <<>>

Call(op, arg, val, found, fault) ==
    [op |-> op, arg |-> arg, val |-> val, found |-> found, fault |-> fault]

\* a panic unwinds out of the caller: nothing runs after it
Running == ret.fault = FALSE

PushPaint(paint) ==
    /\ Running
    /\ LET set == paints
           full == GetFull(set, paint)
           paint_id == PushPaintId(set, paint, full)
       IN  /\ later' = Behind(PushPaintSet(set, paint, full), numbered)
           /\ ret' = Call("push_paint", paint, paint_id, full # <<>>, FALSE)
           /\ log' = IF full # <<>>
                     THEN log
                     ELSE Append(log, [paint |-> paint, id |-> paint_id])
    /\ UNCHANGED <<numbered, tex_coords>>
    /\ UNCHANGED svVars
    /\ UNCHANGED gradVars

Get(paint_id) ==
    /\ Running
    /\ ret' = Call("get", paint_id, PaletteGet(paints, paint_id), FALSE, FALSE)
    /\ UNCHANGED <<numbered, later, log, tex_coords>>
    /\ UNCHANGED svVars
    /\ UNCHANGED gradVars


-----------------------------------------------------------------------------
(* The gradient the scene is authoring.  As for the palette, a gradient     *)
(* with very many stops is one that began with add_color_stop(0.0,          *)
(* NumberedColor(i)) for i = 0, 1, ..., leading - 1: the state holds their  *)
(* count and the entries behind them.                                       *)

\* stops.array after those calls: every stop at distance 0, the ids ascending
NumberedStops(n) ==
    [i \in 1..n |-> GradientStop(0, AsU16(i - 1), NumberedColor(i - 1))]

\* NumberedStops(WideStart), evaluated once
WideStops == NumberedStops(WideStart) \o <<>>

\* LinearGradient.stops.array
gradientStops ==
    (IF leading = WideStart THEN WideStops ELSE NumberedStops(leading)) \o trailing

\* LinearGradient::new()
LinearGradientNewAction ==
    /\ Running
    /\ leading' = 0
    /\ trailing' = LinearGradientNew
    /\ added' = <<>>
    /\ UNCHANGED svVars
    /\ UNCHANGED palVars

\* add_color_stop(k / OffsetSteps, color).  (The state keeps the entries
\* behind the numbered ones: the call is modelled where the new stop comes to
\* rest behind them.)
AddColorStopAction(k, color) ==
    /\ Running
    /\ LET arr == gradientStops
           after == AddColorStop(arr, k, color)
       IN  /\ leading > 0 => after[leading] = arr[leading]
           /\ trailing' = Behind(after, leading)
           /\ added' = Append(added,
                    [stop |-> GradientStop(F32AsU16(RoundOffset(k)), AsU16(SvLen(arr)), color),
                     len |-> SvLen(arr)])
    /\ UNCHANGED leading
    /\ UNCHANGED svVars
    /\ UNCHANGED palVars

-----------------------------------------------------------------------------
(* Palette::build.                                                          *)

Point2DI32(x, y) == [x |-> x, y |-> y]
RectI32(origin, size) == [origin |-> origin, size |-> size]
RectDefault == RectI32(Point2DI32(0, 0), Point2DI32(0, 0))

\* what a layout pass carries: the table and the cursor next_tex_coord
Layout(coords, next) == [coords |-> coords, next |-> next]

\* "Allocate linear gradients": the loop body for the entry at Rust index
\* paint_index - 1
GradientStepSameRow(set, paint_index, lay) ==
    IF IsLinearGradient(set[paint_index])
    THEN Layout([lay.coords EXCEPT ![paint_index] =
                    RectI32(lay.next, Point2DI32(PAINT_TEXTURE_WIDTH, 1))],
                lay.next)
    ELSE lay
GradientStep(set, paint_index, lay) ==
    IF IsLinearGradient(set[paint_index])
    THEN Layout([lay.coords EXCEPT ![paint_index] =
                    RectI32(lay.next, Point2DI32(PAINT_TEXTURE_WIDTH, 1))],
                Point2DI32(lay.next.x, lay.next.y + 1))
    ELSE lay

\* "Allocate colors": the loop body
ColorStepLateWrap(set, paint_index, lay) ==
    IF IsColor(set[paint_index])
    THEN Layout([lay.coords EXCEPT ![paint_index] =
                    RectI32(lay.next, Point2DI32(1, 1))],
                IF lay.next.x + 1 > PAINT_TEXTURE_WIDTH
                THEN Point2DI32(0, lay.next.y + 1)
                ELSE Point2DI32(lay.next.x + 1, lay.next.y))
    ELSE lay
ColorStep(set, paint_index, lay) ==
    IF IsColor(set[paint_index])
    THEN Layout([lay.coords EXCEPT ![paint_index] =
                    RectI32(lay.next, Point2DI32(1, 1))],
                IF lay.next.x + 1 >= PAINT_TEXTURE_WIDTH
                THEN Point2DI32(0, lay.next.y + 1)
                ELSE Point2DI32(lay.next.x + 1, lay.next.y))
    ELSE lay

\* TRUE, once TLC has evaluated v
Evaluated(v) == v = v

\* The two for loops, over the entries at the TLA+ indices lo..hi in order.
\* (The range is halved and the first half evaluated before the second, so
\* that the evaluation nests only log(hi - lo) deep.)
RECURSIVE GradientPass(_, _, _, _)
GradientPass(set, lo, hi, lay) ==
    IF lo > hi THEN lay
    ELSE IF lo = hi THEN GradientStep(set, lo, lay)
    ELSE LET mid == (lo + hi) \div 2
             first == GradientPass(set, lo, mid, lay)
         IN  IF Evaluated(first) THEN GradientPass(set, mid + 1, hi, first) ELSE first

RECURSIVE ColorPass(_, _, _, _)
ColorPass(set, lo, hi, lay) ==
    IF lo > hi THEN lay
    ELSE IF lo = hi THEN ColorStep(set, lo, lay)
    ELSE LET mid == (lo + hi) \div 2
             first == ColorPass(set, lo, mid, lay)
         IN  IF Evaluated(first) THEN ColorPass(set, mid + 1, hi, first) ELSE first

\* paint_tex_coords and next_tex_coord before the passes
BuildStart(set) == Layout([i \in 1..Len(set) |-> RectDefault], Point2DI32(0, 0))

\* Palette::build: the tex_coords of the BuiltPalette returned
BuildColorsFirst(set) ==
    LET start == BuildStart(set)
        afterColors == ColorPass(set, 1, Len(set), start)
        afterGradients == GradientPass(set, 1, Len(set), afterColors)
    IN  afterGradients.coords
Build(set) ==
    LET start == BuildStart(set)
        afterGradients == GradientPass(set, 1, Len(set), start)
        afterColors == ColorPass(set, 1, Len(set), afterGradients)
    IN  afterColors.coords

BuildAction ==
    /\ Running
    /\ tex_coords' = Build(paints)
    /\ ret' = Call("build", <<>>, tex_coords', FALSE, FALSE)
    /\ UNCHANGED <<numbered, later, log>>
    /\ UNCHANGED svVars
    /\ UNCHANGED gradVars

\* BuiltPalette::new
BuiltPaletteNew ==
    /\ Running
    /\ tex_coords' = <<>>
    /\ ret' = Call("built_palette_new", <<>>, <<>>, FALSE, FALSE)
    /\ UNCHANGED <<numbered, later, log>>
    /\ UNCHANGED svVars
    /\ UNCHANGED gradVars

\* BuiltPalette::tex_coords: self.tex_coords[paint_id.0 as usize], which panics
\* when the index is out of bounds
TexCoordsFaults(coords, paint_id) == ~(paint_id < Len(coords))
TexCoordsValue(coords, paint_id) == coords[paint_id + 1]

TexCoords(paint_id) ==
    /\ Running
    /\ ret' = IF TexCoordsFaults(tex_coords, paint_id)
              THEN Call("tex_coords", paint_id, <<>>, FALSE, TRUE)
              ELSE Call("tex_coords", paint_id,
                        <<TexCoordsValue(tex_coords, paint_id)>>, FALSE, FALSE)
    /\ UNCHANGED <<numbered, later, log, tex_coords>>
    /\ UNCHANGED svVars
    /\ UNCHANGED gradVars


-----------------------------------------------------------------------------
(* BuiltPalette::norm_tex_coords and BuiltPalette::half_texel.              *)

PAINT_TEXTURE_U_PER_TEXEL == U16Modulus \div PAINT_TEXTURE_WIDTH
PAINT_TEXTURE_V_PER_TEXEL == U16Modulus \div PAINT_TEXTURE_HEIGHT

\* largest i32
I32Max == 2147483647

\* The i32 product n * f, for f a power of two (as the two factors above
\* are): the low 32 bits of the product, in two's complement.  With
\* q = 2^31 / f these are those of (n mod 2q) * f, and the product of a
\* number below q with f is below 2^31.
MulI32(n, f) ==
    LET q == (I32Max \div f) + 1
        m == n % (2 * q)
    IN  IF m < q THEN m * f ELSE (m - 2 * q) * f

\* Point2DI32::scale_xy: the coordinates multiplied one by one
ScaleXy(point, factors) ==
    Point2DI32(MulI32(point.x, factors.x), MulI32(point.y, factors.y))

\* norm_tex_coords: the point returned, for a paint_id tex_coords does not
\* panic on
NormTexCoordsUnscaled(coords, paint_id) == TexCoordsValue(coords, paint_id).origin
NormTexCoordsValue(coords, paint_id) ==
    LET scale == Point2DI32(PAINT_TEXTURE_U_PER_TEXEL, PAINT_TEXTURE_V_PER_TEXEL)
    IN  ScaleXy(TexCoordsValue(coords, paint_id).origin, scale)

NormTexCoords(paint_id) ==
    /\ Running
    /\ ret' = IF TexCoordsFaults(tex_coords, paint_id)
              THEN Call("norm_tex_coords", paint_id, <<>>, FALSE, TRUE)
              ELSE Call("norm_tex_coords", paint_id,
                        <<NormTexCoordsValue(tex_coords, paint_id)>>, FALSE, FALSE)
    /\ UNCHANGED <<numbered, later, log, tex_coords>>
    /\ UNCHANGED svVars
    /\ UNCHANGED gradVars

\* half_texel: the point returned
HalfTexelValue ==
    Point2DI32(PAINT_TEXTURE_U_PER_TEXEL \div 2, PAINT_TEXTURE_V_PER_TEXEL \div 2)

HalfTexel ==
    /\ Running
    /\ ret' = Call("half_texel", <<>>, HalfTexelValue, FALSE, FALSE)
    /\ UNCHANGED <<numbered, later, log, tex_coords>>
    /\ UNCHANGED svVars
    /\ UNCHANGED gradVars

-----------------------------------------------------------------------------
(* BuiltPalette::build_paint_data and PaintData::put_pixel.                 *)
(*                                                                          *)
(* PaintData.texels is the function from the byte offsets written so far to *)
(* the byte written last; an offset outside its domain holds the 0 of       *)
(* vec![0; ...].                                                            *)

TexelsLen == PAINT_TEXTURE_WIDTH * PAINT_TEXTURE_HEIGHT * 4

Texel(texels, offset) == IF offset \in DOMAIN texels THEN texels[offset] ELSE 0

\* put_pixel: let offset = (coords.y() as usize * width + coords.x() as usize) * 4
PutPixelOffsetTexels(coords) == coords.y * PAINT_TEXTURE_WIDTH + coords.x
PutPixelOffset(coords) == (coords.y * PAINT_TEXTURE_WIDTH + coords.x) * 4

\* put_pixel panics when one of its four stores is out of bounds
PutPixelFaults(coords) ==
    \/ coords.x < 0
    \/ coords.y < 0
    \/ PutPixelOffset(coords) + 3 >= TexelsLen

ColorByteBgra(color, channel) ==
    CASE channel = 0 -> color.b
      [] channel = 1 -> color.g
      [] channel = 2 -> color.r
      [] channel = 3 -> color.a
ColorByte(color, channel) ==
    CASE channel = 0 -> color.r
      [] channel = 1 -> color.g
      [] channel = 2 -> color.b
      [] channel = 3 -> color.a

\* put_pixel: texels after the four stores
PutPixel(texels, coords, color) ==
    LET offset == PutPixelOffset(coords)
    IN  [o \in offset..(offset + 3) |-> ColorByte(color, o - offset)] @@ texels

\* the PaintData under construction, or the panic that ended it
PaintData(texels, fault) == [texels |-> texels, fault |-> fault]

\* `for x in 0..PAINT_TEXTURE_WIDTH`: the put_pixel calls of one gradient.  The
\* offsets grow with x, so a store is out of bounds iff the first or the last
\* is; the calls write disjoint offsets, the call for x the four offsets from
\* offset(origin) + 4 * x.
GradientRowFaults(origin) ==
    \/ PutPixelFaults(origin)
    \/ PutPixelFaults(Point2DI32(origin.x + PAINT_TEXTURE_WIDTH - 1, origin.y))

GradientRowClamped(texels, origin, stops) ==
    LET base == PutPixelOffset(origin)
        stop_count == SvLen(stops)
        Least(a, b) == IF a < b THEN a ELSE b
    IN  [o \in base..(base + 4 * PAINT_TEXTURE_WIDTH - 1) |->
            ColorByte(stops[Least((o - base) \div 4, stop_count - 1) + 1].color,
                      (o - base) % 4)] @@ texels
GradientRow(texels, origin, stops) ==
    LET base == PutPixelOffset(origin)
        stop_count == SvLen(stops)
    IN  [o \in base..(base + 4 * PAINT_TEXTURE_WIDTH - 1) |->
            ColorByte(stops[(((o - base) \div 4) % stop_count) + 1].color,
                      (o - base) % 4)] @@ texels

\* the body of `for (paint_index, paint) in palette.paints.iter().enumerate()`
PaintDataStep(set, coords, paint_index, pd) ==
    IF pd.fault
    THEN pd
    ELSE IF paint_index > Len(coords)
    THEN PaintData(pd.texels, TRUE)       \* &self.tex_coords[paint_index]
    ELSE LET origin == coords[paint_index].origin
             paint == set[paint_index]
         IN  IF IsColor(paint)
             THEN IF PutPixelFaults(origin)
                  THEN PaintData(pd.texels, TRUE)
                  ELSE PaintData(PutPixel(pd.texels, origin, paint.color), FALSE)
             ELSE IF SvLen(paint.stops) = 0
                  THEN PaintData(pd.texels, TRUE) \* x as usize % stop_count
                  ELSE IF GradientRowFaults(origin)
                       THEN PaintData(pd.texels, TRUE)
                       ELSE PaintData(GradientRow(pd.texels, origin, paint.stops),
                                      FALSE)

\* the for loop, over the entries at the TLA+ indices lo..hi in order
RECURSIVE PaintDataLoop(_, _, _, _, _)
PaintDataLoop(set, coords, lo, hi, pd) ==
    IF lo > hi THEN pd
    ELSE IF lo = hi THEN PaintDataStep(set, coords, lo, pd)
    ELSE LET mid == (lo + hi) \div 2
             first == PaintDataLoop(set, coords, lo, mid, pd)
         IN  IF Evaluated(first)
             THEN PaintDataLoop(set, coords, mid + 1, hi, first)
             ELSE first

BuildPaintData(set, coords) ==
    PaintDataLoop(set, coords, 1, Len(set), PaintData(<<>>, FALSE))

BuildPaintDataAction ==
    /\ Running
    /\ LET pd == BuildPaintData(paints, tex_coords)
       IN  ret' = IF pd.fault
                  THEN Call("build_paint_data", <<>>, <<>>, FALSE, TRUE)
                  ELSE Call("build_paint_data", <<>>, pd.texels, FALSE, FALSE)
    /\ UNCHANGED <<numbered, later, log, tex_coords>>
    /\ UNCHANGED svVars
    /\ UNCHANGED gradVars

-----------------------------------------------------------------------------
(* Specifications.                                                          *)

InitSorted ==
    /\ array = SvNew
    /\ values = <<>>
    /\ results = <<>>
    /\ phase = "push"

InitPalette ==
    /\ numbered = 0
    /\ later = PaletteNew
    /\ log = <<>>
    /\ tex_coords = <<>>
    /\ ret = Call("new", <<>>, <<>>, FALSE, FALSE)

InitGradient ==
    /\ leading = 0
    /\ trailing = LinearGradientNew
    /\ added = <<>>

Init == InitSorted /\ InitPalette /\ InitGradient

\* the paints the scene pushes
PaintInputs ==
    { Color(RED), Color(GREEN),
      LinearGradient(LinearGradientNew),
      LinearGradient(GradientOf(<<<<0, RED>>>>)),
      LinearGradient(GradientOf(<<<<2, GREEN>>, <<0, RED>>>>)) }

\* the PaintIds the renderer asks for
IdInputs == 0..MaxPaints

\* the scene authors a palette of at most MaxPaints paints
PushPaintBounded(paint) == PushPaint(paint) /\ Len(paints') <= MaxPaints

\* The palette, from an empty one.
Next ==
    \/ \E paint \in PaintInputs : PushPaintBounded(paint)
    \/ \E paint_id \in IdInputs : Get(paint_id)
    \/ BuildAction
    \/ BuiltPaletteNew
    \/ \E paint_id \in IdInputs : TexCoords(paint_id)
    \/ BuildPaintDataAction

Spec == Init /\ [][Next]_vars

\* The sorted vector under test_sorted_vec.
NextSorted ==
    \/ \E value \in StopValues : SvTestPush(value)
    \/ SvTestSort
    \/ SvTestPop
    \/ SvTestNext

SpecSorted == Init /\ [][NextSorted]_vars


-----------------------------------------------------------------------------
(* The palette of a scene with more paints than a PaintId has values.       *)

InitWide ==
    /\ InitSorted
    /\ InitGradient
    /\ numbered = WideStart
    /\ later = <<>>
    /\ log = <<>>
    /\ tex_coords = <<>>
    /\ ret = Call("new", <<>>, <<>>, FALSE, FALSE)

\* a paint of the palette and three new ones
WideInputs ==
    { Color(NumberedColor(0)),
      Color(NumberedColor(WideStart)),
      Color(NumberedColor(WideStart + 1)),
      LinearGradient(GradientOf(<<<<0, RED>>>>)) }

WideIds == {0, 1, U16Modulus - 1}

NextWide ==
    \/ \E paint \in WideInputs : PushPaint(paint)
    \/ \E paint_id \in WideIds : Get(paint_id)

SpecWide == InitWide /\ [][NextWide]_vars

-----------------------------------------------------------------------------
(* Palettes that fill the rows of the paint texture.                        *)

\* the gradient with the one stop add_color_stop(0.0, NumberedColor(n))
NumberedGradient(n) == LinearGradient(GradientOf(<<<<0, NumberedColor(n)>>>>))

\* one gradient short of a gradient for every row of the texture
RowsStart == PAINT_TEXTURE_HEIGHT - 1
\* one color short of a color for every texel of a row
ColumnsStart == PAINT_TEXTURE_WIDTH - 1

\* the palette after push_paint of the first RowsStart numbered gradients,
\* and the one after push_paint of the first ColumnsStart numbered colors
GradientRows == [i \in 1..RowsStart |-> NumberedGradient(i - 1)]
ColorRow == [i \in 1..ColumnsStart |-> Color(NumberedColor(i - 1))]

LogOf(set) == [i \in 1..Len(set) |-> [paint |-> set[i], id |-> AsU16(i - 1)]]

InitRows ==
    /\ InitSorted
    /\ InitGradient
    /\ numbered = 0
    /\ later \in {GradientRows, ColorRow}
    /\ log = LogOf(later)
    /\ tex_coords = <<>>
    /\ ret = Call("new", <<>>, <<>>, FALSE, FALSE)

\* two gradients and two colors that neither palette holds
RowInputs ==
    { NumberedGradient(RowsStart), NumberedGradient(RowsStart + 1),
      Color(NumberedColor(ColumnsStart)), Color(NumberedColor(ColumnsStart + 1)) }

\* the PaintIds of the last paint of a full row or column and of the next
RowIds == {ColumnsStart, ColumnsStart + 1}

NextRows ==
    \/ \E paint \in RowInputs : PushPaint(paint)
    \/ BuildAction
    \/ \E paint_id \in RowIds : NormTexCoords(paint_id)
    \/ HalfTexel

SpecRows == InitRows /\ [][NextRows]_vars

-----------------------------------------------------------------------------
(* A scene that authors a gradient stop by stop, pushes it, and builds.     *)

\* the scene gives the stop it adds n-th (n from 0) the n-th of three colors
StopColor(n) == <<RED, GREEN, BLUE>>[(n % 3) + 1]

\* the palettes the scene has when it starts on the gradient: an empty one,
\* and one with a gradient and a color
ScenePalettes == { PaletteNew, <<NumberedGradient(0), Color(GREEN)>> }

InitAuthoring ==
    /\ InitSorted
    /\ InitGradient
    /\ numbered = 0
    /\ later \in ScenePalettes
    /\ log = LogOf(later)
    /\ tex_coords = <<>>
    /\ ret = Call("new", <<>>, <<>>, FALSE, FALSE)

\* the scene adds at most MaxStops stops
AddColorStopBounded(k) ==
    /\ SvLen(gradientStops) < MaxStops
    /\ AddColorStopAction(k, StopColor(SvLen(gradientStops)))

\* the scene pushes the gradient once, as it then is
PushGradient ==
    /\ \E scene \in ScenePalettes : paints = scene
    /\ PushPaint(LinearGradient(gradientStops))

NextAuthoring ==
    \/ \E k \in 0..OffsetSteps : AddColorStopBounded(k)
    \/ PushGradient
    \/ BuildAction
    \/ BuildPaintDataAction

SpecAuthoring == InitAuthoring /\ [][NextAuthoring]_vars

-----------------------------------------------------------------------------
(* A gradient with more stops than a GradientStop.id has values: the scene  *)
(* has added the WideStart numbered stops at offset 0.0 and adds more at    *)
(* the offsets above 0.0, or starts a new gradient.                         *)

InitStops ==
    /\ InitSorted
    /\ InitPalette
    /\ leading = WideStart
    /\ trailing = <<>>
    /\ added = <<>>

StopColors == {RED, GREEN, BLUE}

AddColorStopBehind(k, color) ==
    /\ Len(trailing) < MaxStops
    /\ AddColorStopAction(k, color)

NextStops ==
    \/ \E k \in 1..OffsetSteps : \E color \in StopColors : AddColorStopBehind(k, color)
    \/ LinearGradientNewAction

SpecStops == InitStops /\ [][NextStops]_vars

-----------------------------------------------------------------------------
(* A palette that needs more rows than the paint texture has: the scene has *)
(* pushed a color and then a gradient for every row of the texture.         *)

OverflowStart ==
    <<Color(NumberedColor(0))>> \o [i \in 1..PAINT_TEXTURE_HEIGHT |-> NumberedGradient(i)]

InitOverflow ==
    /\ InitSorted
    /\ InitGradient
    /\ numbered = 0
    /\ later = OverflowStart
    /\ log = LogOf(later)
    /\ tex_coords = <<>>
    /\ ret = Call("new", <<>>, <<>>, FALSE, FALSE)

\* a gradient and two colors that the palette does not hold
OverflowInputs ==
    { NumberedGradient(PAINT_TEXTURE_HEIGHT + 1),
      Color(NumberedColor(1)), Color(NumberedColor(2)) }

NextOverflow ==
    \/ \E paint \in OverflowInputs : PushPaint(paint)
    \/ BuildAction
    \/ BuildPaintDataAction

SpecOverflow == InitOverflow /\ [][NextOverflow]_vars

-----------------------------------------------------------------------------
(* Properties of SortedVector.                                              *)

IsSorted(arr) == \A i \in 1..(Len(arr) - 1) : StopLe(arr[i], arr[i + 1])

Count(seq, v) == Cardinality({ i \in 1..Len(seq) : seq[i] = v })

IsPermutation(s, t) ==
    /\ Len(s) = Len(t)
    /\ \A i \in 1..Len(s) : Count(s, s[i]) = Count(t, s[i])

Reverse(seq) == [i \in 1..Len(seq) |-> seq[Len(seq) + 1 - i]]

Remove(seq, i) == SubSeq(seq, 1, i - 1) \o SubSeq(seq, i + 1, Len(seq))

\* values.sort(): the ascending sort, by taking out a least element first
RECURSIVE SortAscending(_)
SortAscending(seq) ==
    IF seq = <<>>
    THEN <<>>
    ELSE LET least == CHOOSE i \in 1..Len(seq) :
                          \A j \in 1..Len(seq) : StopLe(seq[i], seq[j])
         IN  <<seq[least]>> \o SortAscending(Remove(seq, least))

\* C1: after every push the stored array is ascending and a permutation of
\* the values pushed so far; popping until empty yields the reverse of the
\* ascending sort of all pushed values (and at every point of the popping,
\* what is left followed by what was popped, latest first, is that sort).
C1_SortedPushPop ==
    /\ IsSorted(array)
    /\ phase = "push" => IsPermutation(array, values)
    /\ array \o Reverse(results) = SortAscending(values)
    /\ (phase = "pop" /\ SvIsEmpty(array)) => results = Reverse(SortAscending(values))

\* three values, one of them twice, pushed out of order and all popped
C1_Witness ==
    /\ phase = "pop"
    /\ SvIsEmpty(array)
    /\ Len(results) = 3
    /\ values # SortAscending(values)
    /\ \E i, j \in 1..Len(values) : i < j /\ values[i] = values[j]

-----------------------------------------------------------------------------
(* Properties of Palette.                                                   *)

\* the PaintId the first push of paint returned
IssuedId(paint) ==
    LET first == CHOOSE i \in 1..Len(issued) :
                    /\ issued[i].paint = paint
                    /\ \A j \in 1..(i - 1) : issued[j].paint # paint
    IN  issued[first].id

\* C2: a push of a paint equal to one in the palette returns the PaintId its
\* first push returned and leaves the registry as it was (same length, same
\* entries in the same order); a push of a paint not in the palette makes
\* the registry one longer; no other call changes its length.
C2_PushIdempotent ==
    [][ /\ \A paint \in PaintInputs :
              PushPaint(paint) =>
                  IF GetFull(paints, paint) # <<>>
                  THEN /\ ret'.val = IssuedId(paint)
                       /\ paints' = paints
                  ELSE Len(paints') = Len(paints) + 1
        /\ Len(paints') # Len(paints) =>
              /\ ret'.op = "push_paint"
              /\ GetFull(paints, ret'.arg) = <<>> ]_vars

\* a paint pushed again after another paint was pushed behind it
C2_Witness ==
    /\ ret.op = "push_paint"
    /\ ret.found
    /\ Len(paints) >= 2
    /\ ret.arg = paints[1]
    /\ ret.val = 0

\* C3: the paints pushed first in the order p0, p1, ... stay at the indices
\* 0, 1, ...: in every state get(PaintId(i)) is Some(pi) for every PaintId i
\* below the number of distinct paints pushed, and every get call returned
\* that.
C3_IndexStability ==
    /\ Len(issued) = Len(paints)
    /\ \A i \in 1..Len(issued) :
          (i - 1 < U16Modulus) => PaletteGet(paints, i - 1) = <<issued[i].paint>>
    /\ (ret.op = "get" /\ ret.arg < Len(issued)) =>
          ret.val = <<issued[ret.arg + 1].paint>>

\* get of the first paint after two more were pushed
C3_Witness ==
    /\ ret.op = "get"
    /\ ret.arg = 0
    /\ Len(paints) = 3
    /\ ret.val = <<issued[1].paint>>


\* C4: the PaintId a push returns was returned for no other paint, and it is
\* the paint's index in the registry.
C4_IdNeverReused ==
    ret.op = "push_paint" =>
        /\ \A i \in 1..Len(issued) :
              issued[i].id = ret.val => issued[i].paint = ret.arg
        /\ GetFull(paints, ret.arg) = <<ret.val>>

\* C5: a push of a paint not in the palette appends it and returns the
\* palette length before the call.
C5_AppendReturnsTrailingIndex ==
    [][ \A paint \in WideInputs \cup PaintInputs :
            (PushPaint(paint) /\ GetFull(paints, paint) = <<>>) =>
                /\ paints' = Append(paints, paint)
                /\ ret'.val = Len(paints) ]_vars

NoDuplicates(set) ==
    \A i \in 1..Len(set) : \A j \in (i + 1)..Len(set) : set[i] # set[j]

\* C6: the registry never holds two equal paints, and no step makes it
\* shorter.
C6_UniqueAndMonotone ==
    /\ [](NoDuplicates(paints))
    /\ [][Len(paints') >= Len(paints)]_vars

\* each input pushed twice over, and the palette built and queried, with
\* the registry at its bound
C6_Witness ==
    /\ Len(paints) = MaxPaints
    /\ ret.op = "push_paint"
    /\ ret.found
    /\ Len(tex_coords) = MaxPaints


-----------------------------------------------------------------------------
(* Properties of Palette::build.                                            *)

\* rect lies inside [0, WIDTH) x [0, HEIGHT)
RectInside(rect) ==
    /\ rect.origin.x >= 0
    /\ rect.origin.y >= 0
    /\ rect.origin.x + rect.size.x <= PAINT_TEXTURE_WIDTH
    /\ rect.origin.y + rect.size.y <= PAINT_TEXTURE_HEIGHT

\* C7: build returns one rectangle per paint of the palette, each inside the
\* texture.
C7_LayoutCoverage ==
    ret.op = "build" =>
        /\ Len(tex_coords) = Len(paints)
        /\ \A i \in 1..Len(tex_coords) : RectInside(tex_coords[i])

\* the texels of rect and those of other share one
RectsOverlap(rect, other) ==
    /\ rect.origin.x < other.origin.x + other.size.x
    /\ other.origin.x < rect.origin.x + rect.size.x
    /\ rect.origin.y < other.origin.y + other.size.y
    /\ other.origin.y < rect.origin.y + rect.size.y

\* the rows rect covers
RectRows(rect) == rect.origin.y..(rect.origin.y + rect.size.y - 1)

\* C8: after build, the rectangles of two different entries share no texel:
\* a gradient has a row of its own, 256 x 1, that no other gradient and no
\* color is in, and two colors have different texels.
C8_NoOverlap ==
    ret.op = "build" =>
        \A i \in 1..Len(paints) :
            /\ tex_coords[i].size.x > 0
            /\ tex_coords[i].size.y > 0
            /\ IsLinearGradient(paints[i]) =>
                  tex_coords[i].size = Point2DI32(PAINT_TEXTURE_WIDTH, 1)
            /\ \A j \in (i + 1)..Len(paints) :
                  /\ ~RectsOverlap(tex_coords[i], tex_coords[j])
                  /\ (IsLinearGradient(paints[i]) \/ IsLinearGradient(paints[j])) =>
                        RectRows(tex_coords[i]) \cap RectRows(tex_coords[j]) = {}
                  /\ (IsColor(paints[i]) /\ IsColor(paints[j])) =>
                        tex_coords[i].origin # tex_coords[j].origin

\* a build of a palette with two gradients and with more colors than a row
\* has texels, a gradient pushed behind the colors
C8_Witness ==
    /\ ret.op = "build"
    /\ Len(paints) = ColumnsStart + 4
    /\ IsLinearGradient(paints[Len(paints)])
    /\ IsLinearGradient(paints[Len(paints) - 2])
    /\ tex_coords[Len(paints) - 1].origin = Point2DI32(0, 3)


-----------------------------------------------------------------------------
(* Properties of the two passes of Palette::build.                          *)

\* the TLA+ indices of the gradients, and of the colors, of set, ascending
GradientIndices(set) ==
    LET IsGradientAt(i) == IsLinearGradient(set[i])
    IN  SelectSeq([i \in 1..Len(set) |-> i], IsGradientAt)
ColorIndices(set) ==
    LET IsColorAt(i) == IsColor(set[i])
    IN  SelectSeq([i \in 1..Len(set) |-> i], IsColorAt)

\* C15: build gives the k-th gradient of the palette (k from 0), whatever
\* colors lie between the gradients, the rectangle of origin (0, k) and size
\* 256 x 1; the gradient pass is over before a color is placed: it leaves
\* the rectangle of every color at its default, and every color is placed
\* below the rows of all the gradients.
C15_GradientPass ==
    ret.op = "build" =>
        LET set == paints
            gradients == GradientIndices(set)
            afterGradients == GradientPass(set, 1, Len(set), BuildStart(set))
        IN  /\ \A k \in 1..Len(gradients) :
                  tex_coords[gradients[k]] =
                      RectI32(Point2DI32(0, k - 1), Point2DI32(256, 1))
            /\ afterGradients.next = Point2DI32(0, Len(gradients))
            /\ \A i \in 1..Len(set) :
                  IsColor(set[i]) =>
                      /\ afterGradients.coords[i] = RectDefault
                      /\ tex_coords[i].origin.y >= Len(gradients)

\* a build of a palette that ends gradient, color, gradient, behind the
\* colors of most of a row
C15_Witness ==
    /\ ret.op = "build"
    /\ Len(paints) = ColumnsStart + 3
    /\ IsLinearGradient(paints[Len(paints)])
    /\ IsColor(paints[Len(paints) - 1])
    /\ IsLinearGradient(paints[Len(paints) - 2])
    /\ tex_coords[Len(paints)].origin = Point2DI32(0, 1)
    /\ tex_coords[1].origin = Point2DI32(0, 2)

\* C16: with G gradients in the palette, build gives the j-th color of the
\* palette (j from 0) the 1 x 1 rectangle of origin (j mod 256, G + j div
\* 256); a pass does not write the entries of the other variant: the
\* gradient pass leaves the colors' at the default, the color pass leaves
\* the gradients' as it finds them.
C16_ColorPass ==
    ret.op = "build" =>
        LET set == paints
            G == Len(GradientIndices(set))
            colors == ColorIndices(set)
            afterGradients == GradientPass(set, 1, Len(set), BuildStart(set))
        IN  /\ \A j \in 1..Len(colors) :
                  tex_coords[colors[j]] =
                      RectI32(Point2DI32((j - 1) % 256, G + ((j - 1) \div 256)),
                              Point2DI32(1, 1))
            /\ \A i \in 1..Len(set) :
                  /\ IsColor(set[i]) => afterGradients.coords[i] = RectDefault
                  /\ IsLinearGradient(set[i]) =>
                        tex_coords[i] = afterGradients.coords[i]

\* a build of a palette of a gradient and more colors than a row has
\* texels, the gradient among the colors
C16_Witness ==
    /\ ret.op = "build"
    /\ Len(paints) = ColumnsStart + 3
    /\ IsLinearGradient(paints[ColumnsStart + 1])
    /\ IsColor(paints[Len(paints)])
    /\ tex_coords[ColumnsStart + 2].origin = Point2DI32(PAINT_TEXTURE_WIDTH - 1, 1)
    /\ tex_coords[Len(paints)].origin = Point2DI32(0, 2)

-----------------------------------------------------------------------------
(* Properties of gradients.                                                 *)

\* the color of the texel (x, y) of the buffer
TexelColor(texels, x, y) ==
    LET offset == PutPixelOffset(Point2DI32(x, y))
    IN  ColorU(Texel(texels, offset), Texel(texels, offset + 1),
               Texel(texels, offset + 2), Texel(texels, offset + 3))

\* the gradient of the example: add_color_stop(0.0, red), (0.5, green),
\* (1.0, blue)
ExampleGradient ==
    LinearGradient(GradientOf(<<<<0, RED>>, <<OffsetSteps \div 2, GREEN>>,
                               <<OffsetSteps, BLUE>>>>))

\* build_paint_data has returned the buffer of the palette as build laid it out
Materialized ==
    /\ ret.op = "build_paint_data"
    /\ ~ret.fault
    /\ tex_coords = Build(paints)

\* C11 (as claimed): after build and build_paint_data, texel x = 0 of the
\* row of the example gradient is red, texel x = 255 is blue, and every texel
\* x of the row has the color of stop x mod 3.
C11_GradientExample ==
    Materialized =>
        \A i \in 1..Len(paints) :
            paints[i] = ExampleGradient =>
                LET y == tex_coords[i].origin.y
                IN  /\ TexelColor(ret.val, 0, y) = RED
                    /\ TexelColor(ret.val, PAINT_TEXTURE_WIDTH - 1, y) = BLUE
                    /\ \A x \in 0..(PAINT_TEXTURE_WIDTH - 1) :
                          TexelColor(ret.val, x, y) =
                              ExampleGradient.stops[(x % 3) + 1].color

\* C11 (amended): after build and build_paint_data, texel x = 0 of the row of
\* the example gradient is red, texel x = 255 is red too (255 mod 3 = 0; the
\* last blue texel is x = 254), and every texel x of the row has the color
\* of stop x mod 3.
C11_GradientExampleWrapped ==
    Materialized =>
        \A i \in 1..Len(paints) :
            paints[i] = ExampleGradient =>
                LET y == tex_coords[i].origin.y
                IN  /\ TexelColor(ret.val, 0, y) = RED
                    /\ TexelColor(ret.val, PAINT_TEXTURE_WIDTH - 1, y) = RED
                    /\ TexelColor(ret.val, PAINT_TEXTURE_WIDTH - 2, y) = BLUE
                    /\ \A x \in 0..(PAINT_TEXTURE_WIDTH - 1) :
                          TexelColor(ret.val, x, y) =
                              ExampleGradient.stops[(x % 3) + 1].color

\* the buffer of a palette that holds the example gradient on row 1, behind
\* a gradient and a color
C11_Witness ==
    /\ Materialized
    /\ Len(paints) = 3
    /\ paints[3] = ExampleGradient
    /\ tex_coords[3].origin = Point2DI32(0, 1)
    /\ TexelColor(ret.val, PAINT_TEXTURE_WIDTH - 1, 1) = RED

\* s sorts strictly before t on (distance, id)
StopBefore(s, t) ==
    \/ s.distance < t.distance
    \/ s.distance = t.distance /\ s.id < t.id

\* the place of stop in arr
PlaceOf(arr, stop) == CHOOSE p \in 1..Len(arr) : arr[p] = stop

\* C12: in a gradient built through add_color_stop, the stored stops ascend
\* strictly on (distance, id), so that the distances do not decrease and no
\* two stops are equal on (distance, id); the id of each stop is the number
\* of stops there were when it was added; the stored stops are the added
\* ones, those of equal distance in the order they were added in.
C12_StopOrder ==
    LET arr == gradientStops
    IN  /\ \A c \in 1..Len(added) : added[c].stop.id = added[c].len
        /\ Len(trailing) = Len(added)
        /\ \A c \in 1..Len(added) : \E p \in 1..Len(trailing) : trailing[p] = added[c].stop
        /\ \A c \in 1..Len(added) : \A d \in (c + 1)..Len(added) :
              added[c].stop.distance = added[d].stop.distance =>
                  PlaceOf(trailing, added[c].stop) < PlaceOf(trailing, added[d].stop)
        /\ \A i \in 1..(Len(arr) - 1) : StopBefore(arr[i], arr[i + 1])

\* C17: for every gradient of the palette with at least one stop and every
\* x in [0, 256), the buffer build_paint_data returns holds at the offset
\* (y * 256 + x) * 4, y the gradient's row, the r, g, b, a of
\* stops[x mod stop_count], stops the gradient's stop array, which is sorted.
C17_GradientPixels ==
    Materialized =>
        \A i \in 1..Len(paints) :
            (IsLinearGradient(paints[i]) /\ SvLen(paints[i].stops) >= 1) =>
                LET y == tex_coords[i].origin.y
                    arr == paints[i].stops
                IN  /\ IsSorted(arr)
                    /\ \A x \in 0..(PAINT_TEXTURE_WIDTH - 1) : \A channel \in 0..3 :
                          Texel(ret.val, (y * PAINT_TEXTURE_WIDTH + x) * 4 + channel) =
                              ColorByte(arr[(x % SvLen(arr)) + 1].color, channel)

\* the buffer of a palette whose third paint is a gradient the scene added
\* three stops to, the last added stored first
C17_Witness ==
    /\ Materialized
    /\ Len(paints) = 3
    /\ IsLinearGradient(paints[3])
    /\ SvLen(paints[3].stops) = 3
    /\ paints[3].stops[1].id = 2
    /\ TexelColor(ret.val, 0, 1) = BLUE

-----------------------------------------------------------------------------
(* Properties of the buffer.                                                *)

\* the texel (x, y) lies in rect
TexelInside(x, y, rect) ==
    /\ rect.origin.x <= x
    /\ x < rect.origin.x + rect.size.x
    /\ rect.origin.y <= y
    /\ y < rect.origin.y + rect.size.y

\* the texel of the byte at offset lies in a rectangle of coords
Covered(coords, offset) ==
    LET x == (offset \div 4) % PAINT_TEXTURE_WIDTH
        y == (offset \div 4) \div PAINT_TEXTURE_WIDTH
    IN  \E i \in 1..Len(coords) : TexelInside(x, y, coords[i])

\* C18: the buffer build_paint_data returns has 256 * 256 * 4 bytes; the
\* r, g, b, a of each color of the palette are at the texel of the origin of
\* its rectangle; every byte of a texel that no rectangle covers is zero (a
\* byte never written is zero, so: every byte written is of a covered texel
\* or zero); an empty palette builds to no rectangle and to a buffer of
\* zeros only.
C18_PaintData ==
    /\ (ret.op = "build" /\ paints = <<>>) => Len(tex_coords) = 0
    /\ Materialized =>
          /\ TexelsLen = 256 * 256 * 4
          /\ \A offset \in DOMAIN ret.val :
                /\ offset \in 0..(TexelsLen - 1)
                /\ Covered(tex_coords, offset) \/ ret.val[offset] = 0
          /\ \A i \in 1..Len(paints) :
                IsColor(paints[i]) =>
                    TexelColor(ret.val, tex_coords[i].origin.x, tex_coords[i].origin.y)
                        = paints[i].color
          /\ paints = <<>> =>
                /\ tex_coords = <<>>
                /\ \A offset \in 0..(TexelsLen - 1) : Texel(ret.val, offset) = 0

\* the buffer of a palette of a gradient between two colors
C18_Witness ==
    /\ Materialized
    /\ Len(paints) = 3
    /\ paints[1] = Color(RED)
    /\ IsLinearGradient(paints[2])
    /\ paints[3] = Color(GREEN)
    /\ TexelColor(ret.val, 0, 1) = RED
    /\ TexelColor(ret.val, 1, 1) = GREEN
    /\ TexelColor(ret.val, 2, 1) = ColorU(0, 0, 0, 0)

-----------------------------------------------------------------------------
(* Properties of the lifecycle.                                             *)

\* build has derived a BuiltPalette with rectangles in it
Built == tex_coords # <<>>

\* C13: the lifecycle only moves forward: once build has derived a
\* BuiltPalette from the palette no step changes the palette, and at every
\* tex_coords / build_paint_data query after it the BuiltPalette has one
\* rectangle per palette entry.
C13_LifecycleForward ==
    /\ [][Built => paints' = paints]_vars
    /\ []((Built /\ ret.op \in {"tex_coords", "build_paint_data"}) =>
              Len(tex_coords) = Len(paints))

-----------------------------------------------------------------------------
(* Properties of the coordinate queries.                                    *)

\* C14: for every PaintId of a built palette, norm_tex_coords(id) is the
\* origin of tex_coords(id) with x and y multiplied by 65536 / 256 = 256,
\* the products of an origin inside the texture within the i32 range; every
\* norm_tex_coords call returned that; half_texel() is (128, 128).
C14_NormTexCoords ==
    /\ \A id \in 0..(Len(tex_coords) - 1) :
          LET origin == TexCoordsValue(tex_coords, id).origin
              norm == NormTexCoordsValue(tex_coords, id)
          IN  /\ (origin.x \in 0..(PAINT_TEXTURE_WIDTH - 1) /\
                  origin.y \in 0..(PAINT_TEXTURE_HEIGHT - 1)) =>
                     /\ norm = Point2DI32(256 * origin.x, 256 * origin.y)
                     /\ norm.x \in 0..I32Max
                     /\ norm.y \in 0..I32Max
              /\ (ret.op = "norm_tex_coords" /\ ret.arg = id) =>
                     /\ ~ret.fault
                     /\ ret.val = <<Point2DI32(256 * origin.x, 256 * origin.y)>>
    /\ HalfTexelValue = Point2DI32(128, 128)
    /\ ret.op = "half_texel" => ret.val = Point2DI32(128, 128)

\* norm_tex_coords of the color in the last column of the texture, below the
\* rows of two gradients
C14_Witness ==
    /\ ret.op = "norm_tex_coords"
    /\ ~ret.fault
    /\ tex_coords = Build(paints)
    /\ TexCoordsValue(tex_coords, ret.arg).origin = Point2DI32(PAINT_TEXTURE_WIDTH - 1, 2)
    /\ ret.val = <<Point2DI32(65280, 512)>>

-----------------------------------------------------------------------------
(* Properties of the faults.                                                *)

HasEmptyGradient(set) ==
    \E i \in 1..Len(set) : IsLinearGradient(set[i]) /\ SvLen(set[i].stops) = 0

\* the texels of the row of rect are all zero
RowIsZero(texels, rect) ==
    \A x \in 0..(PAINT_TEXTURE_WIDTH - 1) : \A channel \in 0..3 :
        Texel(texels, PutPixelOffset(Point2DI32(x, rect.origin.y)) + channel) = 0

\* C9: build_paint_data of a palette that holds a gradient with no stops,
\* with the BuiltPalette built from that palette, does not fault: it returns
\* the buffer, the row of each such gradient all zero.
C9_EmptyGradientNoFault ==
    (/\ ret.op = "build_paint_data"
     /\ tex_coords = Build(paints)
     /\ HasEmptyGradient(paints)) =>
        /\ ~ret.fault
        /\ \A i \in 1..Len(paints) :
              (IsLinearGradient(paints[i]) /\ SvLen(paints[i].stops) = 0) =>
                  RowIsZero(ret.val, tex_coords[i])

\* C10: a lookup with a PaintId at or beyond the size gives None and does
\* not fault: get returns None for an id >= the palette length and
\* Some(paint) below it; tex_coords gives no rectangle and no fault for an
\* id >= the length of tex_coords.
C10_LookupNotFound ==
    /\ ret.op = "get" =>
          /\ ~ret.fault
          /\ ret.arg >= Len(paints) => ret.val = <<>>
          /\ ret.arg < Len(paints) => ret.val = <<paints[ret.arg + 1]>>
    /\ (ret.op = "tex_coords" /\ ret.arg >= Len(tex_coords)) =>
          /\ ~ret.fault
          /\ ret.val = <<>>

\* the rows the layout of set takes: one per gradient, one per 256 colors
RowsNeeded(set) ==
    Len(GradientIndices(set))
        + ((Len(ColorIndices(set)) + PAINT_TEXTURE_WIDTH - 1) \div PAINT_TEXTURE_WIDTH)

\* C19: for a palette that needs more than 256 rows, build returns a
\* rectangle per paint, and build_paint_data on it (the palette without a
\* gradient of no stops) then returns its buffer without a fault, every
\* put_pixel inside the buffer.
C19_OverflowWraps ==
    RowsNeeded(paints) > PAINT_TEXTURE_HEIGHT =>
        /\ ret.op = "build" => (~ret.fault /\ Len(tex_coords) = Len(paints))
        /\ (/\ ret.op = "build_paint_data"
            /\ tex_coords = Build(paints)
            /\ ~HasEmptyGradient(paints)) =>
               /\ ~ret.fault
               /\ \A offset \in DOMAIN ret.val : offset \in 0..(TexelsLen - 1)

=============================================================================
